---- MODULE Spec2Model ----
(***************************************************************************)
(* Contacts backend (FastAPI): signup / login / e-mail confirmation, JWT   *)
(* issuing and verification, the bearer-token gate and the contact CRUD    *)
(* handlers, as a state machine over the User and Contact tables.          *)
(* Time is counted in minutes.                                             *)
(***************************************************************************)
EXTENDS Integers, Sequences, FiniteSets, TLC

VARIABLES users, contacts, now, kept, mailq, pending, last, flag_writes, issue, sessions

vars == <<users, contacts, now, kept, mailq, pending, last, flag_writes, issue, sessions>>

(* ------------------------------ bounds --------------------------------- *)
MaxWeeks == 1
MaxSteps == 1
MaxMail == 1
MaxContactId == 2

(* ------------------------- program constants --------------------------- *)
DEFAULT_ACCESS_EXPIRE_MINUTES == 15
ACCESS_TOKEN_EXPIRE_MINUTES == 20
REFRESH_TOKEN_EXPIRE_DAYS == 7
EMAIL_TOKEN_EXPIRE_DAYS == 7
MinutesPerDay == 24 * 60
HTTP_200_OK == 200
HTTP_201_CREATED == 201
HTTP_400_BAD_REQUEST == 400
HTTP_401_UNAUTHORIZED == 401
HTTP_404_NOT_FOUND == 404
HTTP_409_CONFLICT == 409
HTTP_422_UNPROCESSABLE_ENTITY == 422
HTTP_500_INTERNAL_SERVER_ERROR == 500

(* --------------------------- input universes --------------------------- *)
Emails == {"a@x.com"}
Passwords == {"secret123", "hunter2222"}
Usernames == {"alice"}
AvatarUrls == {"http://img/1"}
Procs == {1, 2}
\* an address nobody signs up with
UnknownEmail == "ghost@x.com"
OneEmail == "a@x.com"
OnePassword == "secret123"
TickStep == 8
Week == 7 * MinutesPerDay
\* the instants at which the clock is read
TimePoints ==
    {k * TickStep : k \in 0..MaxSteps} \cup {w * Week + TickStep : w \in 1..MaxWeeks}
\* expires_delta values handed to create_access_token; NoDelta is None
NoDelta == -1
Deltas == {NoDelta, 0, 1, TickStep, DEFAULT_ACCESS_EXPIRE_MINUTES, ACCESS_TOKEN_EXPIRE_MINUTES, Week}

(* ------------------------------ tokens --------------------------------- *)
\* A JWT: the claims it carries and whether its signature verifies under
\* SECRET_KEY/ALGORITHM.  A claim that is absent is AbsentClaim, a JSON null
\* subject is NullSub.  Tokens carry no kind marker.
AbsentClaim == "<absent>"
NullSub == "<null>"
NoIat == -1
NoToken == [sub |-> AbsentClaim, exp |-> 0, iat |-> NoIat, sig |-> "none"]
NoHeader == [sub |-> AbsentClaim, exp |-> 0, iat |-> NoIat, sig |-> "noheader"]

jwt_encode(sub, exp, iat) == [sub |-> sub, exp |-> exp, iat |-> iat, sig |-> "ok"]

\* jose.jwt.decode: signature, then exp (rejected when exp < now), then the
\* type of sub when present.  Returns the payload or a JWTError.
jwt_decode(token, t) ==
    IF token.sig # "ok" THEN [ok |-> FALSE, err |-> "JWTError", sub |-> AbsentClaim]
    ELSE IF token.exp < t THEN [ok |-> FALSE, err |-> "ExpiredSignatureError", sub |-> AbsentClaim]
    ELSE IF token.sub = NullSub THEN [ok |-> FALSE, err |-> "JWTClaimsError", sub |-> AbsentClaim]
    ELSE [ok |-> TRUE, err |-> "", sub |-> token.sub]

\* faulty variant: the delta is subtracted
create_access_token_in_past(sub, expires_delta, t) ==
    IF expires_delta # NoDelta /\ expires_delta # 0
    THEN jwt_encode(sub, t - expires_delta, NoIat)
    ELSE jwt_encode(sub, t - DEFAULT_ACCESS_EXPIRE_MINUTES, NoIat)

\* "if expires_delta:" is false for None and for a zero timedelta
create_access_token(sub, expires_delta, t) ==
    IF expires_delta # NoDelta /\ expires_delta # 0
    THEN jwt_encode(sub, t + expires_delta, NoIat)
    ELSE jwt_encode(sub, t + DEFAULT_ACCESS_EXPIRE_MINUTES, NoIat)

create_refresh_token(sub, t) ==
    jwt_encode(sub, t + REFRESH_TOKEN_EXPIRE_DAYS * MinutesPerDay, NoIat)

create_email_token(sub, t) ==
    jwt_encode(sub, t + EMAIL_TOKEN_EXPIRE_DAYS * MinutesPerDay, t)

\* verify_token: the payload, or 401 "Invalid credentials" on any JWTError
verify_token(token, t) ==
    LET d == jwt_decode(token, t)
    IN  IF d.ok THEN [status |-> HTTP_200_OK, detail |-> "", sub |-> d.sub]
        ELSE [status |-> HTTP_401_UNAUTHORIZED, detail |-> "Invalid credentials", sub |-> AbsentClaim]

\* EmailTokenManager.get_email_from_token: payload["sub"], 422 on JWTError,
\* an uncaught KeyError (500) when the payload has no "sub"
get_email_from_token(token, t) ==
    LET d == jwt_decode(token, t)
    IN  IF ~d.ok THEN [status |-> HTTP_422_UNPROCESSABLE_ENTITY,
                       detail |-> "Invalid token for email verification", sub |-> AbsentClaim]
        ELSE IF d.sub = AbsentClaim THEN [status |-> HTTP_500_INTERNAL_SERVER_ERROR,
                       detail |-> "Internal Server Error", sub |-> AbsentClaim]
        ELSE [status |-> HTTP_200_OK, detail |-> "", sub |-> d.sub]

(* --------------------------- password hasher --------------------------- *)
get_password_hash(plain) == <<"$2b$", plain>>
verify_password(plain, digest) == digest = <<"$2b$", plain>>

(* ----------------------------- User table ------------------------------ *)
NoUser == 0
User(id, username, email, password) ==
    [id |-> id, username |-> username, email |-> email, password |-> password,
     confirmed |-> FALSE, refresh_token |-> NoToken, avatar |-> ""]

\* db.query(User).filter(User.email == email).first(): the id of the first
\* row with that email, NoUser when there is none
get_user_by_email(email, tbl) ==
    IF \E i \in DOMAIN tbl : tbl[i].email = email
    THEN CHOOSE i \in DOMAIN tbl : tbl[i].email = email /\ \A j \in DOMAIN tbl : tbl[j].email = email => i <= j
    ELSE NoUser

\* faulty variant: no unique constraint
EmailUnique_off(email, tbl) == TRUE

\* the unique constraint on User.email: commit of a second row with the same
\* email raises IntegrityError
EmailUnique(email, tbl) == \A i \in DOMAIN tbl : tbl[i].email # email

\* db.add(new_user); db.commit(); db.refresh(new_user)
create_user(username, email, password, tbl) ==
    Append(tbl, User(Len(tbl) + 1, username, email, password))

\* faulty variant: the row is rebuilt and loses its confirmation
update_token_resets(uid, token, tbl) ==
    [tbl EXCEPT ![uid] = [User(@.id, @.username, @.email, @.password)
                          EXCEPT !.refresh_token = token, !.avatar = tbl[uid].avatar]]

update_token(uid, token, tbl) == [tbl EXCEPT ![uid].refresh_token = token]

confirm_email(email, tbl) ==
    [tbl EXCEPT ![get_user_by_email(email, tbl)].confirmed = TRUE]

repo_update_avatar(email, url, tbl) ==
    [tbl EXCEPT ![get_user_by_email(email, tbl)].avatar = url]

(* ----------------------------- responses ------------------------------- *)
\* The response of the request completed by the step just taken; NoResp
\* after a step that completes no request.
\* a request without body
NoBody ==
    [contact_id |-> 0, first_name |-> "", last_name |-> "", email |-> "",
     phone_number |-> "", birth_date |-> 0, additional_info |-> ""]
Resp(op, status, detail) ==
    [op |-> op, status |-> status, detail |-> detail, email |-> "", password |-> "",
     token |-> NoToken, access |-> NoToken, refresh |-> NoToken, uid |-> NoUser,
     cid |-> 0, rows |-> {}, body |-> NoBody, search |-> ""]
NoResp == Resp("", 0, "")

NoPending == [handler |-> "", username |-> "", email |-> "", password |-> ""]

\* the token the client has put aside, with the kind it was issued as (the
\* kind is the client's knowledge, the token does not carry it)
NoKept == [kind |-> "", via |-> "", tok |-> NoToken]
\* the arguments and result of the latest direct create_access_token call
NoExp == -1
\* the payload dict a caller hands to a token function; exp is NoExp while
\* the dict has no "exp" key
Payload(sub) == [sub |-> sub, exp |-> NoExp]
NoIssue ==
    [fn |-> "", delta |-> NoDelta, at |-> 0, tok |-> NoToken,
     data |-> Payload(AbsentClaim), after |-> Payload(AbsentClaim)]

\* the database session of a request: the position of its get_db generator,
\* the status the handler ended with, and whether the session is open
NoSession == [stage |-> "idle", status |-> 0, open |-> FALSE]

\* bearer values a request can carry: none, a kept token, or a crafted one
Crafted(t) ==
    {[sub |-> AbsentClaim, exp |-> 0, iat |-> NoIat, sig |-> "bad"],
     jwt_encode(AbsentClaim, t + DEFAULT_ACCESS_EXPIRE_MINUTES, NoIat),
     jwt_encode(NullSub, t + DEFAULT_ACCESS_EXPIRE_MINUTES, NoIat),
     jwt_encode(UnknownEmail, t + DEFAULT_ACCESS_EXPIRE_MINUTES, NoIat)}
Bearers == {NoHeader, kept.tok, last.access, last.refresh} \cup Crafted(now)

(* ------------------------------- Init ---------------------------------- *)
Init ==
    /\ users = <<>>
    /\ contacts = {}
    /\ now = 0
    /\ kept = NoKept
    /\ mailq = <<>>
    /\ pending = [p \in Procs |-> NoPending]
    /\ last = NoResp
    /\ flag_writes = [e \in Emails |-> 0]
    /\ issue = NoIssue
    /\ sessions = [p \in Procs |-> NoSession]

(* ------------------------------ clock ---------------------------------- *)
Tick ==
    /\ \E t \in TimePoints : t > now /\ now' = t
    /\ last' = NoResp
    /\ UNCHANGED <<users, contacts, kept, mailq, pending, flag_writes, issue, sessions>>

\* the client puts aside a token of the response it just received
KeepToken ==
    /\ \/ last.access # NoToken
          /\ kept' = [kind |-> "access", via |-> "", tok |-> last.access]
       \/ last.refresh # NoToken
          /\ kept' = [kind |-> "refresh", via |-> last.op, tok |-> last.refresh]
    /\ last' = NoResp
    /\ UNCHANGED <<users, contacts, now, mailq, pending, flag_writes, issue, sessions>>

(* ---------------------------- routes/jwt.py ---------------------------- *)
\* the caller's dict after the call: create_access_token and
\* create_email_token work on data.copy(), create_refresh_token calls
\* data.update({"exp": expire}) on the dict it was given
data_after_create_access_token(data, t) == data
data_after_create_refresh_token(data, t) ==
    [data EXCEPT !.exp = t + REFRESH_TOKEN_EXPIRE_DAYS * MinutesPerDay]
data_after_create_email_token(data, t) == data

\* the dicts a caller passes: a fresh {"sub": email} or the dict of its
\* previous call
PayloadDicts ==
    {Payload(e) : e \in Emails \cup {UnknownEmail}}
        \cup (IF issue.fn = "" THEN {} ELSE {issue.after})

\* a direct call create_access_token(data, expires_delta)
issue_access_token(data, expires_delta) ==
    /\ issue' = [fn |-> "create_access_token", delta |-> expires_delta, at |-> now,
                 tok |-> create_access_token(data.sub, expires_delta, now),
                 data |-> data, after |-> data_after_create_access_token(data, now)]
    /\ last' = NoResp
    /\ UNCHANGED <<users, contacts, now, kept, mailq, pending, flag_writes, sessions>>

\* a direct call create_refresh_token(data)
issue_refresh_token(data) ==
    /\ issue' = [fn |-> "create_refresh_token", delta |-> NoDelta, at |-> now,
                 tok |-> create_refresh_token(data.sub, now),
                 data |-> data, after |-> data_after_create_refresh_token(data, now)]
    /\ last' = NoResp
    /\ UNCHANGED <<users, contacts, now, kept, mailq, pending, flag_writes, sessions>>

\* a direct call EmailTokenManager.create_email_token(data)
issue_email_token(data) ==
    /\ issue' = [fn |-> "create_email_token", delta |-> NoDelta, at |-> now,
                 tok |-> create_email_token(data.sub, now),
                 data |-> data, after |-> data_after_create_email_token(data, now)]
    /\ last' = NoResp
    /\ UNCHANGED <<users, contacts, now, kept, mailq, pending, flag_writes, sessions>>

\* verify_token on the token issued last
verify_issued_token ==
    LET v == verify_token(issue.tok, now)
    IN
    /\ issue # NoIssue
    /\ last' = [Resp("verify_token", v.status, v.detail) EXCEPT !.token = issue.tok, !.email = v.sub]
    /\ UNCHANGED <<users, contacts, now, kept, mailq, pending, flag_writes, issue, sessions>>

(* --------------------------- routes/auth.py ---------------------------- *)
\* faulty variant: the existence check is missing
signup_check_always_passes(p, handler, username, email, password) ==
    /\ pending[p] = NoPending
    /\ last' = NoResp
    /\ pending' = [pending EXCEPT ![p] = [handler |-> handler, username |-> username,
                                           email |-> email, password |-> password]]
    /\ UNCHANGED <<users, contacts, now, kept, mailq, flag_writes, issue, sessions>>

\* signup up to the existence check (raises 409 when the email is taken)
signup_check(p, handler, username, email, password) ==
    /\ pending[p] = NoPending
    /\ IF get_user_by_email(email, users) # NoUser
       THEN /\ last' = [Resp(handler, HTTP_409_CONFLICT,
                             IF handler = "signup" THEN "Account already exists"
                             ELSE "User with this email already exists")
                        EXCEPT !.email = email, !.password = password]
            /\ UNCHANGED pending
       ELSE /\ last' = NoResp
            /\ pending' = [pending EXCEPT ![p] = [handler |-> handler, username |-> username,
                                                   email |-> email, password |-> password]]
    /\ UNCHANGED <<users, contacts, now, kept, mailq, flag_writes, issue, sessions>>

\* faulty variant: the mail is enqueued before the commit is known to succeed
signup_insert_enqueues_first(p) ==
    LET b == pending[p] IN
    /\ b # NoPending
    /\ b.handler = "signup" => Len(mailq) < MaxMail
    /\ pending' = [pending EXCEPT ![p] = NoPending]
    /\ mailq' = IF b.handler = "signup" THEN Append(mailq, b.email) ELSE mailq
    /\ IF EmailUnique(b.email, users)
       THEN /\ users' = create_user(b.username, b.email, get_password_hash(b.password), users)
            /\ last' = [Resp(b.handler, HTTP_201_CREATED,
                             IF b.handler = "signup"
                             THEN "User successfully created. Check your email for confirmation."
                             ELSE "User signed up successfully!")
                        EXCEPT !.email = b.email, !.password = b.password, !.uid = Len(users) + 1]
       ELSE /\ last' = [Resp(b.handler, HTTP_500_INTERNAL_SERVER_ERROR, "Internal Server Error")
                        EXCEPT !.email = b.email, !.password = b.password]
            /\ UNCHANGED users
    /\ UNCHANGED <<contacts, now, kept, flag_writes, issue, sessions>>

\* signup from the hash to the response: insert, commit, enqueue the mail
signup_insert(p) ==
    LET b == pending[p] IN
    /\ b # NoPending
    /\ b.handler = "signup" => Len(mailq) < MaxMail
    /\ pending' = [pending EXCEPT ![p] = NoPending]
    /\ IF EmailUnique(b.email, users)
       THEN /\ users' = create_user(b.username, b.email, get_password_hash(b.password), users)
            /\ last' = [Resp(b.handler, HTTP_201_CREATED,
                             IF b.handler = "signup"
                             THEN "User successfully created. Check your email for confirmation."
                             ELSE "User signed up successfully!")
                        EXCEPT !.email = b.email, !.password = b.password, !.uid = Len(users) + 1]
            /\ mailq' = IF b.handler = "signup" THEN Append(mailq, b.email) ELSE mailq
       ELSE /\ last' = [Resp(b.handler, HTTP_500_INTERNAL_SERVER_ERROR, "Internal Server Error")
                        EXCEPT !.email = b.email, !.password = b.password]
            /\ UNCHANGED <<users, mailq>>
    /\ UNCHANGED <<contacts, now, kept, flag_writes, issue, sessions>>

\* faulty variant: the confirmation test is missing
login_check_skips_confirmed(uid, password, tbl) ==
    IF uid = NoUser THEN "Invalid email"
    ELSE IF ~verify_password(password, tbl[uid].password) THEN "Invalid password"
    ELSE ""

\* the three 401 tests of login, in the order of the code; "" when all pass
login_check(uid, password, tbl) ==
    IF uid = NoUser THEN "Invalid email"
    ELSE IF ~tbl[uid].confirmed THEN "Email not confirmed"
    ELSE IF ~verify_password(password, tbl[uid].password) THEN "Invalid password"
    ELSE ""

login(email, password) ==
    LET uid == get_user_by_email(email, users)
        rq == [Resp("login", HTTP_401_UNAUTHORIZED, "") EXCEPT !.email = email, !.password = password]
    IN
    /\ IF login_check(uid, password, users) # ""
       THEN /\ last' = [rq EXCEPT !.detail = login_check(uid, password, users)]
            /\ UNCHANGED users
       ELSE LET access_token == create_access_token(users[uid].email, NoDelta, now)
                refresh_token == create_refresh_token(users[uid].email, now)
            IN  /\ users' = update_token(uid, refresh_token, users)
                /\ last' = [rq EXCEPT !.status = HTTP_200_OK, !.access = access_token,
                                      !.refresh = refresh_token, !.uid = uid]
    /\ UNCHANGED <<contacts, now, kept, mailq, pending, flag_writes, issue, sessions>>

\* faulty variant: the "already confirmed" test is missing
confirmed_email_always_writes(token) ==
    LET g == get_email_from_token(token, now)
        uid == get_user_by_email(g.sub, users)
        rq == [Resp("confirmed_email", g.status, g.detail) EXCEPT !.token = token]
    IN
    /\ IF g.status # HTTP_200_OK
       THEN /\ last' = rq
            /\ UNCHANGED <<users, flag_writes>>
       ELSE IF uid = NoUser
       THEN /\ last' = [rq EXCEPT !.status = HTTP_400_BAD_REQUEST, !.detail = "Verification error"]
            /\ UNCHANGED <<users, flag_writes>>
       ELSE /\ users' = confirm_email(g.sub, users)
            /\ flag_writes' = [flag_writes EXCEPT ![g.sub] = @ + 1]
            /\ last' = [rq EXCEPT !.detail = "Email confirmed", !.email = g.sub, !.uid = uid]
    /\ UNCHANGED <<contacts, now, kept, mailq, pending, issue, sessions>>

confirmed_email(token) ==
    LET g == get_email_from_token(token, now)
        uid == get_user_by_email(g.sub, users)
        rq == [Resp("confirmed_email", g.status, g.detail) EXCEPT !.token = token]
    IN
    /\ IF g.status # HTTP_200_OK
       THEN /\ last' = rq
            /\ UNCHANGED <<users, flag_writes>>
       ELSE IF uid = NoUser
       THEN /\ last' = [rq EXCEPT !.status = HTTP_400_BAD_REQUEST, !.detail = "Verification error"]
            /\ UNCHANGED <<users, flag_writes>>
       ELSE IF users[uid].confirmed
       THEN /\ last' = [rq EXCEPT !.detail = "Your email is already confirmed",
                                  !.email = g.sub, !.uid = uid]
            /\ UNCHANGED <<users, flag_writes>>
       ELSE /\ users' = confirm_email(g.sub, users)
            /\ flag_writes' = [flag_writes EXCEPT ![g.sub] = @ + 1]
            /\ last' = [rq EXCEPT !.detail = "Email confirmed", !.email = g.sub, !.uid = uid]
    /\ UNCHANGED <<contacts, now, kept, mailq, pending, issue, sessions>>

\* POST /request_email: user.confirmed is read before the None test, so an
\* unknown email ends in an AttributeError (500)
request_email(email) ==
    LET uid == get_user_by_email(email, users)
        rq == [Resp("request_email", HTTP_200_OK, "") EXCEPT !.email = email]
    IN
    /\ uid # NoUser /\ ~users[uid].confirmed => Len(mailq) < MaxMail
    /\ IF uid = NoUser
       THEN /\ last' = [rq EXCEPT !.status = HTTP_500_INTERNAL_SERVER_ERROR,
                                  !.detail = "Internal Server Error"]
            /\ UNCHANGED mailq
       ELSE IF users[uid].confirmed
       THEN /\ last' = [rq EXCEPT !.detail = "Your email is already confirmed", !.uid = uid]
            /\ UNCHANGED mailq
       ELSE /\ mailq' = Append(mailq, users[uid].email)
            /\ last' = [rq EXCEPT !.detail = "Check your email for confirmation.", !.uid = uid]
    /\ UNCHANGED <<users, contacts, now, kept, pending, flag_writes, issue, sessions>>

\* the background mail task of signup / request_email: it either fails
\* (nothing is surfaced, nothing retried) or the confirmation token built by
\* create_email_token reaches the client
run_email_task ==
    /\ mailq # <<>>
    /\ mailq' = Tail(mailq)
    /\ \/ UNCHANGED kept
       \/ kept' = [kind |-> "email", via |-> "send_email",
                    tok |-> create_email_token(Head(mailq), now)]
    /\ last' = NoResp
    /\ UNCHANGED <<users, contacts, now, pending, flag_writes, issue, sessions>>

(* -------------------------- routes/routes.py --------------------------- *)
\* faulty variant: the password is not verified
get_user_any_password(email, password, tbl) ==
    get_user_by_email(email, tbl)

\* get_user of auth_procedures.py: the user when the password verifies
get_user(email, password, tbl) ==
    LET uid == get_user_by_email(email, tbl)
    IN  IF uid # NoUser /\ verify_password(password, tbl[uid].password) THEN uid ELSE NoUser

routes_login(email, password) ==
    LET uid == get_user(email, password, users)
        rq == [Resp("routes_login", HTTP_401_UNAUTHORIZED, "Invalid credentials")
               EXCEPT !.email = email, !.password = password]
    IN
    /\ last' = IF uid = NoUser THEN rq
               ELSE [rq EXCEPT !.status = HTTP_200_OK,
                               !.detail = "User logged in successfully!",
                               !.access = create_access_token(users[uid].email,
                                                              ACCESS_TOKEN_EXPIRE_MINUTES, now),
                               !.refresh = create_refresh_token(users[uid].email, now),
                               !.uid = uid]
    /\ UNCHANGED <<users, contacts, now, kept, mailq, pending, flag_writes, issue, sessions>>

(* --------------------- auth_files/auth_procedures.py ------------------- *)
\* OAuth2PasswordBearer: a request without Authorization header is answered
\* 401 "Not authenticated" before the handler runs
oauth2_scheme(bearer) ==
    IF bearer = NoHeader
    THEN [status |-> HTTP_401_UNAUTHORIZED, detail |-> "Not authenticated"]
    ELSE [status |-> HTTP_200_OK, detail |-> ""]

\* POST /token/: get_user is called without a session, so its session
\* parameter is the Depends(get_db) default object and session.query is an
\* AttributeError (500) for every input
login_for_access_token(email, password) ==
    /\ last' = [Resp("login_for_access_token", HTTP_500_INTERNAL_SERVER_ERROR,
                      "Internal Server Error")
                 EXCEPT !.email = email, !.password = password]
    /\ UNCHANGED <<users, contacts, now, kept, mailq, pending, flag_writes, issue, sessions>>

\* faulty variant: the new access token is minted for a fixed subject
refresh_access_token_fixed_subject(bearer) ==
    LET o == oauth2_scheme(bearer)
        v == verify_token(bearer, now)
        rq == [Resp("refresh_access_token", HTTP_401_UNAUTHORIZED, "Invalid credentials")
               EXCEPT !.token = bearer]
    IN
    /\ last' = IF o.status # HTTP_200_OK THEN [rq EXCEPT !.detail = o.detail]
               ELSE IF v.status # HTTP_200_OK \/ v.sub = AbsentClaim THEN rq
               ELSE [rq EXCEPT !.status = HTTP_200_OK, !.detail = "",
                               !.access = create_access_token(UnknownEmail, ACCESS_TOKEN_EXPIRE_MINUTES, now)]
    /\ UNCHANGED <<users, contacts, now, kept, mailq, pending, flag_writes, issue, sessions>>

refresh_access_token(bearer) ==
    LET o == oauth2_scheme(bearer)
        v == verify_token(bearer, now)
        rq == [Resp("refresh_access_token", HTTP_401_UNAUTHORIZED, "Invalid credentials")
               EXCEPT !.token = bearer]
    IN
    /\ last' = IF o.status # HTTP_200_OK THEN [rq EXCEPT !.detail = o.detail]
               ELSE IF v.status # HTTP_200_OK \/ v.sub = AbsentClaim THEN rq
               ELSE [rq EXCEPT !.status = HTTP_200_OK, !.detail = "",
                               !.access = create_access_token(v.sub, ACCESS_TOKEN_EXPIRE_MINUTES, now)]
    /\ UNCHANGED <<users, contacts, now, kept, mailq, pending, flag_writes, issue, sessions>>

\* faulty variant: a token that lives longer than an access token is refused
get_current_user_access_only(bearer, t, tbl) ==
    LET o == oauth2_scheme(bearer)
        d == jwt_decode(bearer, t)
    IN  IF o.status # HTTP_200_OK
        THEN [status |-> o.status, detail |-> o.detail, uid |-> NoUser]
        ELSE IF ~d.ok \/ bearer.exp > t + ACCESS_TOKEN_EXPIRE_MINUTES
        THEN [status |-> HTTP_401_UNAUTHORIZED, detail |-> "Invalid credentials", uid |-> NoUser]
        ELSE IF d.sub = AbsentClaim
        THEN [status |-> HTTP_500_INTERNAL_SERVER_ERROR, detail |-> "Internal Server Error", uid |-> NoUser]
        ELSE IF get_user_by_email(d.sub, tbl) = NoUser
        THEN [status |-> HTTP_401_UNAUTHORIZED, detail |-> "Invalid credentials", uid |-> NoUser]
        ELSE [status |-> HTTP_200_OK, detail |-> "", uid |-> get_user_by_email(d.sub, tbl)]

\* get_current_user: payload["sub"] on a payload without "sub" is a KeyError,
\* which the except JWTError clause does not catch (500)
get_current_user(bearer, t, tbl) ==
    LET o == oauth2_scheme(bearer)
        d == jwt_decode(bearer, t)
    IN  IF o.status # HTTP_200_OK
        THEN [status |-> o.status, detail |-> o.detail, uid |-> NoUser]
        ELSE IF ~d.ok
        THEN [status |-> HTTP_401_UNAUTHORIZED, detail |-> "Invalid credentials", uid |-> NoUser]
        ELSE IF d.sub = AbsentClaim
        THEN [status |-> HTTP_500_INTERNAL_SERVER_ERROR, detail |-> "Internal Server Error", uid |-> NoUser]
        ELSE IF get_user_by_email(d.sub, tbl) = NoUser
        THEN [status |-> HTTP_401_UNAUTHORIZED, detail |-> "Invalid credentials", uid |-> NoUser]
        ELSE [status |-> HTTP_200_OK, detail |-> "", uid |-> get_user_by_email(d.sub, tbl)]

get_active_user(bearer, t, tbl) ==
    LET g == get_current_user(bearer, t, tbl)
    IN  IF g.status = HTTP_200_OK /\ g.uid = NoUser
        THEN [status |-> HTTP_400_BAD_REQUEST, detail |-> "There is no active user", uid |-> NoUser]
        ELSE g

\* GET /secret of routes.py: nothing but the gate
read_secret(bearer) ==
    LET g == get_current_user(bearer, now, users)
    IN
    /\ last' = [Resp("read_secret", g.status,
                     IF g.status = HTTP_200_OK
                     THEN "You have access to this secret information!" ELSE g.detail)
                EXCEPT !.token = bearer, !.uid = g.uid,
                       !.email = IF g.uid # NoUser THEN users[g.uid].email ELSE ""]
    /\ UNCHANGED <<users, contacts, now, kept, mailq, pending, flag_writes, issue, sessions>>

verify_user_email(bearer) ==
    LET g == get_current_user(bearer, now, users)
        rq == [Resp("verify_user_email", g.status, g.detail) EXCEPT !.token = bearer, !.uid = g.uid]
    IN
    /\ IF g.status # HTTP_200_OK
       THEN /\ last' = rq
            /\ UNCHANGED <<users, flag_writes>>
       ELSE /\ last' = [rq EXCEPT !.detail = "Email verification successful!",
                                  !.email = users[g.uid].email]
            /\ IF ~users[g.uid].confirmed
               THEN /\ users' = [users EXCEPT ![g.uid].confirmed = TRUE]
                    /\ flag_writes' = [flag_writes EXCEPT ![users[g.uid].email] = @ + 1]
               ELSE UNCHANGED <<users, flag_writes>>
    /\ UNCHANGED <<contacts, now, kept, mailq, pending, issue, sessions>>

(* ------------------------ repository/users.py -------------------------- *)
\* update_avatar(email, url, db): user.avatar on a missing user is an
\* AttributeError
update_avatar(email, url) ==
    LET uid == get_user_by_email(email, users)
        rq == [Resp("update_avatar", HTTP_200_OK, "") EXCEPT !.email = email, !.uid = uid]
    IN
    /\ IF uid = NoUser
       THEN /\ last' = [rq EXCEPT !.status = HTTP_500_INTERNAL_SERVER_ERROR,
                                  !.detail = "Internal Server Error"]
            /\ UNCHANGED users
       ELSE /\ users' = repo_update_avatar(email, url, users)
            /\ last' = rq
    /\ UNCHANGED <<contacts, now, kept, mailq, pending, flag_writes, issue, sessions>>

(* ----------------------------- Contact table -------------------------- *)
FirstNames == {"Ann", "Bob"}
BirthDates == {3 * MinutesPerDay}
\* request bodies (UserContact)
ContactBodies ==
    [contact_id : 1..MaxContactId, first_name : FirstNames, last_name : {"Lee"},
     email : {"ann@x.com"}, phone_number : {"123"}, birth_date : BirthDates,
     additional_info : {""}]
OneContact ==
    [contact_id |-> 1, first_name |-> "Ann", last_name |-> "Lee", email |-> "ann@x.com",
     phone_number |-> "123", birth_date |-> 3 * MinutesPerDay, additional_info |-> ""]
\* the calendar: a year of 365 days; day_of_year is the month and day of a date
MinutesPerYear == 365 * MinutesPerDay
day_of_year(t) == (t % MinutesPerYear) \div MinutesPerDay
year_of(t) == (t - (t % MinutesPerYear)) \div MinutesPerYear
\* request bodies of the store: a contact born this year and one born the
\* year before, same month and day
StoreBirthDates == {3 * MinutesPerDay, 3 * MinutesPerDay - MinutesPerYear}
StoreBodies ==
    {[contact_id |-> id, first_name |-> v[1], last_name |-> "Lee", email |-> "lee@x.com",
      phone_number |-> "123", birth_date |-> v[2], additional_info |-> "note"] :
         id \in 1..MaxContactId,
         v \in {<<"Ann", 3 * MinutesPerDay>>, <<"Bob", 3 * MinutesPerDay - MinutesPerYear>>}}
\* search terms of GET /contacts/?search=...; "" is a request without one
Searches == {"", "AN", "ob"}
\* the characters of the strings that are searched or searched for
Chars ==
    ("" :> <<>>) @@ ("AN" :> <<"A", "N">>) @@ ("ob" :> <<"o", "b">>)
    @@ ("Ann" :> <<"A", "n", "n">>) @@ ("Bob" :> <<"B", "o", "b">>)
    @@ ("Lee" :> <<"L", "e", "e">>)
    @@ ("lee@x.com" :> <<"l", "e", "e", "@", "x", ".", "c", "o", "m">>)
    @@ ("ann@x.com" :> <<"a", "n", "n", "@", "x", ".", "c", "o", "m">>)
lower(ch) ==
    CASE ch = "A" -> "a" [] ch = "B" -> "b" [] ch = "L" -> "l" [] ch = "N" -> "n"
      [] OTHER -> ch
\* column.ilike("%term%"): term is a substring of the column, letters compared
\* without case
ilike(column, term) ==
    LET c == [i \in 1..Len(Chars[column]) |-> lower(Chars[column][i])]
        t == [i \in 1..Len(Chars[term]) |-> lower(Chars[term][i])]
    IN  \E k \in 0..(Len(c) - Len(t)) : \A i \in 1..Len(t) : c[k + i] = t[i]

\* faulty variant: first_name and last_name are stored swapped
Contact_swaps_names(id, b) ==
    [id |-> id, first_name |-> b.last_name, last_name |-> b.first_name, email |-> b.email,
     phone_number |-> b.phone_number, birth_date |-> b.birth_date,
     additional_data |-> b.additional_info]

Contact(id, b) ==
    [id |-> id, first_name |-> b.first_name, last_name |-> b.last_name, email |-> b.email,
     phone_number |-> b.phone_number, birth_date |-> b.birth_date,
     additional_data |-> b.additional_info]
\* session.query(Contact).get(id) / .filter(Contact.id == id).first()
contact_by_id(id, tbl) == {c \in tbl : c.id = id}

Granted == [status |-> HTTP_200_OK, detail |-> "", uid |-> NoUser]
Denied(op, g, bearer) == [Resp(op, g.status, g.detail) EXCEPT !.token = bearer]

\* faulty variant: the failed insert is not rolled back and replaces the row
do_create_new_contact_overwrites(op, g, bearer, b) ==
    /\ IF g.status # HTTP_200_OK
       THEN /\ last' = Denied(op, g, bearer)
            /\ UNCHANGED contacts
       ELSE IF contact_by_id(b.contact_id, contacts) # {}
       THEN /\ last' = [Resp(op, HTTP_500_INTERNAL_SERVER_ERROR, "Internal Server Error: IntegrityError")
                        EXCEPT !.token = bearer, !.uid = g.uid, !.cid = b.contact_id, !.body = b]
            /\ contacts' = (contacts \ contact_by_id(b.contact_id, contacts))
                               \cup {Contact(b.contact_id, b)}
       ELSE /\ contacts' = contacts \cup {Contact(b.contact_id, b)}
            /\ last' = [Resp(op, HTTP_200_OK, "Contact created successfully!")
                        EXCEPT !.token = bearer, !.uid = g.uid, !.cid = b.contact_id, !.body = b]
    /\ UNCHANGED <<users, now, kept, mailq, pending, flag_writes, issue, sessions>>

\* body of create_new_contact: add + commit, rollback and 500 on any error
\* (the primary key already exists)
do_create_new_contact(op, g, bearer, b) ==
    /\ IF g.status # HTTP_200_OK
       THEN /\ last' = Denied(op, g, bearer)
            /\ UNCHANGED contacts
       ELSE IF contact_by_id(b.contact_id, contacts) # {}
       THEN /\ last' = [Resp(op, HTTP_500_INTERNAL_SERVER_ERROR, "Internal Server Error: IntegrityError")
                        EXCEPT !.token = bearer, !.uid = g.uid, !.cid = b.contact_id, !.body = b]
            /\ UNCHANGED contacts
       ELSE /\ contacts' = contacts \cup {Contact(b.contact_id, b)}
            /\ last' = [Resp(op, HTTP_200_OK, "Contact created successfully!")
                        EXCEPT !.token = bearer, !.uid = g.uid, !.cid = b.contact_id, !.body = b]
    /\ UNCHANGED <<users, now, kept, mailq, pending, flag_writes, issue, sessions>>

do_get_all_contacts_list(op, g, bearer) ==
    /\ last' = IF g.status # HTTP_200_OK THEN Denied(op, g, bearer)
               ELSE [Resp(op, HTTP_200_OK, "") EXCEPT !.token = bearer, !.uid = g.uid,
                                                       !.rows = contacts]
    /\ UNCHANGED <<users, contacts, now, kept, mailq, pending, flag_writes, issue, sessions>>

do_get_contact(op, g, bearer, id) ==
    /\ last' = IF g.status # HTTP_200_OK THEN Denied(op, g, bearer)
               ELSE IF contact_by_id(id, contacts) = {}
               THEN [Resp(op, HTTP_404_NOT_FOUND, "Contact not found")
                     EXCEPT !.token = bearer, !.uid = g.uid, !.cid = id]
               ELSE [Resp(op, HTTP_200_OK, "") EXCEPT !.token = bearer, !.uid = g.uid,
                                                       !.cid = id, !.rows = contact_by_id(id, contacts)]
    /\ UNCHANGED <<users, contacts, now, kept, mailq, pending, flag_writes, issue, sessions>>

\* faulty variant: birth_date is not assigned
do_update_contact_keeps_birth_date(op, g, bearer, id, b) ==
    /\ IF g.status # HTTP_200_OK
       THEN /\ last' = Denied(op, g, bearer)
            /\ UNCHANGED contacts
       ELSE IF contact_by_id(id, contacts) = {}
       THEN /\ last' = [Resp(op, HTTP_500_INTERNAL_SERVER_ERROR,
                             "Internal Server Error: 404: Contact not found")
                        EXCEPT !.token = bearer, !.uid = g.uid, !.cid = id, !.body = b]
            /\ UNCHANGED contacts
       ELSE /\ contacts' = (contacts \ contact_by_id(id, contacts))
                               \cup {[Contact(id, b) EXCEPT !.birth_date = c.birth_date] :
                                        c \in contact_by_id(id, contacts)}
            /\ last' = [Resp(op, HTTP_200_OK, "Success!")
                        EXCEPT !.token = bearer, !.uid = g.uid, !.cid = id, !.body = b]
    /\ UNCHANGED <<users, now, kept, mailq, pending, flag_writes, issue, sessions>>

\* body of update_contact: the 404 is raised inside the try block and caught
\* by "except Exception", which rolls back and answers 500
do_update_contact(op, g, bearer, id, b) ==
    /\ IF g.status # HTTP_200_OK
       THEN /\ last' = Denied(op, g, bearer)
            /\ UNCHANGED contacts
       ELSE IF contact_by_id(id, contacts) = {}
       THEN /\ last' = [Resp(op, HTTP_500_INTERNAL_SERVER_ERROR,
                             "Internal Server Error: 404: Contact not found")
                        EXCEPT !.token = bearer, !.uid = g.uid, !.cid = id, !.body = b]
            /\ UNCHANGED contacts
       ELSE /\ contacts' = (contacts \ contact_by_id(id, contacts)) \cup {Contact(id, b)}
            /\ last' = [Resp(op, HTTP_200_OK, "Success!")
                        EXCEPT !.token = bearer, !.uid = g.uid, !.cid = id, !.body = b]
    /\ UNCHANGED <<users, now, kept, mailq, pending, flag_writes, issue, sessions>>

\* faulty variant: the delete is not restricted to the id
do_delete_contact_truncates(op, g, bearer, id) ==
    /\ IF g.status # HTTP_200_OK
       THEN /\ last' = Denied(op, g, bearer)
            /\ UNCHANGED contacts
       ELSE IF contact_by_id(id, contacts) = {}
       THEN /\ last' = [Resp(op, HTTP_404_NOT_FOUND, "Contact not found")
                        EXCEPT !.token = bearer, !.uid = g.uid, !.cid = id]
            /\ UNCHANGED contacts
       ELSE /\ contacts' = {}
            /\ last' = [Resp(op, HTTP_200_OK, "Success!")
                        EXCEPT !.token = bearer, !.uid = g.uid, !.cid = id]
    /\ UNCHANGED <<users, now, kept, mailq, pending, flag_writes, issue, sessions>>

do_delete_contact(op, g, bearer, id) ==
    /\ IF g.status # HTTP_200_OK
       THEN /\ last' = Denied(op, g, bearer)
            /\ UNCHANGED contacts
       ELSE IF contact_by_id(id, contacts) = {}
       THEN /\ last' = [Resp(op, HTTP_404_NOT_FOUND, "Contact not found")
                        EXCEPT !.token = bearer, !.uid = g.uid, !.cid = id]
            /\ UNCHANGED contacts
       ELSE /\ contacts' = contacts \ contact_by_id(id, contacts)
            /\ last' = [Resp(op, HTTP_200_OK, "Success!")
                        EXCEPT !.token = bearer, !.uid = g.uid, !.cid = id]
    /\ UNCHANGED <<users, now, kept, mailq, pending, flag_writes, issue, sessions>>

\* birth_date between today and today + 7 days, compared as absolute dates
do_get_upcoming_birthdays(op, g, bearer) ==
    /\ last' = IF g.status # HTTP_200_OK THEN Denied(op, g, bearer)
               ELSE [Resp(op, HTTP_200_OK, "")
                     EXCEPT !.token = bearer, !.uid = g.uid,
                            !.rows = {c \in contacts : c.birth_date >= now
                                                       /\ c.birth_date <= now + 7 * MinutesPerDay}]
    /\ UNCHANGED <<users, contacts, now, kept, mailq, pending, flag_writes, issue, sessions>>

\* body of get_specific_contacts_list: the rows matching the search term in
\* first_name, last_name or email, every row when the term is empty or absent
get_specific_contacts_list(search, tbl) ==
    IF search # ""
    THEN {c \in tbl : \/ ilike(c.first_name, search)
                      \/ ilike(c.last_name, search)
                      \/ ilike(c.email, search)}
    ELSE tbl

\* the handlers registered for GET /contacts/, in the order of registration;
\* the router serves a request with the first route that matches
GetContactsRoutes == <<"get_all_contacts_list", "get_specific_contacts_list">>
first_match(routes) == Head(routes)

\* GET /contacts/?search=term
get_contacts(bearer, search) ==
    LET h == first_match(GetContactsRoutes)
        g == get_active_user(bearer, now, users)
    IN
    /\ last' = IF g.status # HTTP_200_OK
               THEN [Denied(h, g, bearer) EXCEPT !.search = search]
               ELSE [Resp(h, HTTP_200_OK, "")
                     EXCEPT !.token = bearer, !.uid = g.uid, !.search = search,
                            !.rows = IF h = "get_specific_contacts_list"
                                     THEN get_specific_contacts_list(search, contacts)
                                     ELSE contacts]
    /\ UNCHANGED <<users, contacts, now, kept, mailq, pending, flag_writes, issue, sessions>>

(* --------------------- routes/router_endpoints.py ---------------------- *)
create_new_contact(bearer, b) ==
    do_create_new_contact("create_new_contact", get_active_user(bearer, now, users), bearer, b)
get_all_contacts_list(bearer) ==
    do_get_all_contacts_list("get_all_contacts_list", get_active_user(bearer, now, users), bearer)
get_contact(bearer, id) ==
    do_get_contact("get_contact", get_active_user(bearer, now, users), bearer, id)
update_contact(bearer, id, b) ==
    do_update_contact("update_contact", get_active_user(bearer, now, users), bearer, id, b)
delete_contact(bearer, id) ==
    do_delete_contact("delete_contact", get_active_user(bearer, now, users), bearer, id)
get_upcoming_birthdays(bearer) ==
    do_get_upcoming_birthdays("get_upcoming_birthdays", get_active_user(bearer, now, users), bearer)

(* ---------------------- repository/contacts.py ------------------------- *)
\* the same handlers registered on the module's own app, with no
\* get_active_user dependency
repository_create_new_contact(b) ==
    do_create_new_contact("repository.create_new_contact", Granted, NoToken, b)
repository_get_all_contacts_list ==
    do_get_all_contacts_list("repository.get_all_contacts_list", Granted, NoToken)
repository_get_contact(id) ==
    do_get_contact("repository.get_contact", Granted, NoToken, id)
repository_update_contact(id, b) ==
    do_update_contact("repository.update_contact", Granted, NoToken, id, b)
repository_delete_contact(id) ==
    do_delete_contact("repository.delete_contact", Granted, NoToken, id)

(* ------------------------------ db/db.py ------------------------------- *)
\* the statuses a request ends with: a return (200) or a raised HTTPException
Outcomes ==
    {HTTP_200_OK, HTTP_401_UNAUTHORIZED, HTTP_404_NOT_FOUND, HTTP_409_CONFLICT,
     HTTP_500_INTERNAL_SERVER_ERROR}

\* get_db up to the yield: db = SessionLocal(); yield db
get_db_yield(p) ==
    /\ sessions[p].stage \in {"idle", "done"}
    /\ sessions' = [sessions EXCEPT ![p] = [stage |-> "yielded", status |-> 0, open |-> TRUE]]
    /\ UNCHANGED <<users, contacts, now, kept, mailq, pending, last, flag_writes, issue>>

\* the handler, or another dependency of the request, returns or raises
request_ends(p, status) ==
    /\ sessions[p].stage = "yielded"
    /\ sessions' = [sessions EXCEPT ![p].stage = IF status = HTTP_200_OK THEN "returned"
                                                  ELSE "raised",
                                     ![p].status = status]
    /\ UNCHANGED <<users, contacts, now, kept, mailq, pending, last, flag_writes, issue>>

\* faulty variant: db.close() follows the yield without try/finally, so an
\* exception thrown into the generator skips it
get_db_no_finally(p) ==
    /\ sessions[p].stage \in {"returned", "raised"}
    /\ sessions' = [sessions EXCEPT ![p].stage = "done",
                                     ![p].open = (sessions[p].stage = "raised")]
    /\ UNCHANGED <<users, contacts, now, kept, mailq, pending, last, flag_writes, issue>>

\* get_db after the yield, resumed or thrown into at the end of the request:
\* finally: db.close()
get_db_finally(p) ==
    /\ sessions[p].stage \in {"returned", "raised"}
    /\ sessions' = [sessions EXCEPT ![p].stage = "done", ![p].open = FALSE]
    /\ UNCHANGED <<users, contacts, now, kept, mailq, pending, last, flag_writes, issue>>

(* --------------------------- specifications ---------------------------- *)
\* the account lifecycle: requests are served one at a time
Next ==
    \/ Tick
    \/ KeepToken
    \/ \E u \in Usernames, e \in Emails, pw \in Passwords : signup_check(1, "signup", u, e, pw)
    \/ \E e \in Emails, pw \in Passwords : signup_check(1, "routes_signup", "", e, pw)
    \/ signup_insert(1)
    \/ \E e \in Emails, pw \in Passwords : login(e, pw)
    \/ \E b \in Bearers : confirmed_email(b)
    \/ \E e \in Emails \cup {UnknownEmail} : request_email(e)
    \/ run_email_task
    \/ \E e \in Emails, pw \in Passwords : routes_login(e, pw)
    \/ \E e \in Emails, pw \in Passwords : login_for_access_token(e, pw)
    \/ \E b \in Bearers : refresh_access_token(b)
    \/ \E b \in Bearers : verify_user_email(b)
    \/ \E e \in Emails \cup {UnknownEmail}, url \in AvatarUrls : update_avatar(e, url)

Spec == Init /\ [][Next]_vars

\* the contact handlers behind the gate, for one account
NextContacts ==
    \/ Tick
    \/ KeepToken
    \/ \E pw \in Passwords : signup_check(1, "routes_signup", "", OneEmail, pw)
    \/ signup_insert(1)
    \/ \E pw \in Passwords : routes_login(OneEmail, pw)
    \/ \E b \in Bearers : read_secret(b)
    \/ \E b \in Bearers, c \in ContactBodies : create_new_contact(b, c)
    \/ \E b \in Bearers : get_all_contacts_list(b)
    \/ \E b \in Bearers, id \in 1..MaxContactId : get_contact(b, id)
    \/ \E b \in Bearers, c \in ContactBodies : update_contact(b, c.contact_id, c)
    \/ \E b \in Bearers, id \in 1..MaxContactId : delete_contact(b, id)
    \/ \E b \in Bearers : get_upcoming_birthdays(b)
    \/ \E c \in ContactBodies : repository_create_new_contact(c)
    \/ repository_get_all_contacts_list
    \/ \E id \in 1..MaxContactId : repository_get_contact(id)
    \/ \E c \in ContactBodies : repository_update_contact(c.contact_id, c)
    \/ \E id \in 1..MaxContactId : repository_delete_contact(id)

SpecContacts == Init /\ [][NextContacts]_vars

\* the contact store: one account, bearers the client holds, bodies with
\* birth dates of two years, list requests with a search term
StoreBearers == {NoHeader, kept.tok}
NextStore ==
    \/ Tick
    \/ KeepToken
    \/ signup_check(1, "routes_signup", "", OneEmail, OnePassword)
    \/ signup_insert(1)
    \/ routes_login(OneEmail, OnePassword)
    \/ \E b \in StoreBearers, c \in StoreBodies : create_new_contact(b, c)
    \/ \E b \in StoreBearers, s \in Searches : get_contacts(b, s)
    \/ \E b \in StoreBearers, id \in 1..MaxContactId : get_contact(b, id)
    \/ \E b \in StoreBearers, id \in 1..MaxContactId, c \in StoreBodies :
           update_contact(b, id, c)
    \/ \E b \in StoreBearers, id \in 1..MaxContactId : delete_contact(b, id)
    \/ \E b \in StoreBearers : get_upcoming_birthdays(b)
    \/ \E c \in StoreBodies : repository_create_new_contact(c)
    \/ \E id \in 1..MaxContactId : repository_get_contact(id)
    \/ \E id \in 1..MaxContactId, c \in StoreBodies : repository_update_contact(id, c)
    \/ \E id \in 1..MaxContactId : repository_delete_contact(id)

SpecStore == Init /\ [][NextStore]_vars

\* signup requests served concurrently
NextRace ==
    \/ \E p \in Procs, u \in Usernames, e \in Emails, pw \in Passwords :
           signup_check(p, "signup", u, e, pw)
    \/ \E p \in Procs, e \in Emails, pw \in Passwords :
           signup_check(p, "routes_signup", "", e, pw)
    \/ \E p \in Procs : signup_insert(p)
    \/ run_email_task

SpecRace == Init /\ [][NextRace]_vars

\* token issuing and verification on their own
NextToken ==
    \/ Tick
    \/ \E data \in PayloadDicts, d \in Deltas : issue_access_token(data, d)
    \/ \E data \in PayloadDicts : issue_refresh_token(data)
    \/ \E data \in PayloadDicts : issue_email_token(data)
    \/ verify_issued_token

SpecToken == Init /\ [][NextToken]_vars

\* every handler that writes the User or the Contact table, one account
NextAll ==
    \/ Tick
    \/ KeepToken
    \/ \E u \in Usernames : signup_check(1, "signup", u, OneEmail, OnePassword)
    \/ signup_check(1, "routes_signup", "", OneEmail, OnePassword)
    \/ signup_insert(1)
    \/ login(OneEmail, OnePassword)
    \/ confirmed_email(kept.tok)
    \/ request_email(OneEmail)
    \/ run_email_task
    \/ routes_login(OneEmail, OnePassword)
    \/ refresh_access_token(kept.tok)
    \/ verify_user_email(kept.tok)
    \/ \E url \in AvatarUrls : update_avatar(OneEmail, url)
    \/ create_new_contact(kept.tok, OneContact)
    \/ update_contact(kept.tok, OneContact.contact_id, [OneContact EXCEPT !.first_name = "Bob"])
    \/ delete_contact(kept.tok, OneContact.contact_id)
    \/ repository_create_new_contact(OneContact)
    \/ repository_update_contact(OneContact.contact_id, [OneContact EXCEPT !.first_name = "Bob"])
    \/ repository_delete_contact(OneContact.contact_id)

SpecAll == Init /\ [][NextAll]_vars
\* the database sessions of concurrent requests
NextSession ==
    \/ \E p \in Procs : get_db_yield(p)
    \/ \E p \in Procs, st \in Outcomes : request_ends(p, st)
    \/ \E p \in Procs : get_db_finally(p)

SpecSession == Init /\ [][NextSession]_vars

(* ------------------------------ claims --------------------------------- *)
stored(email) == users[get_user_by_email(email, users)]
exists(email) == get_user_by_email(email, users) # NoUser
SignupOps == {"signup", "routes_signup"}
ContactOps ==
    {"create_new_contact", "get_all_contacts_list", "get_contact", "update_contact",
     "delete_contact", "get_upcoming_birthdays",
     "repository.create_new_contact", "repository.get_all_contacts_list",
     "repository.get_contact", "repository.update_contact", "repository.delete_contact"}
GatedOps == {"read_secret", "create_new_contact", "get_all_contacts_list", "get_contact",
             "update_contact", "delete_contact", "get_upcoming_birthdays"}

\* C1: a login (auth.py) with the email and password of a stored user is
\* answered 401 "Email not confirmed" without tokens while the user is
\* unconfirmed and 200 with an access and a refresh token once the user is
\* confirmed; a successful confirmed_email leaves the user confirmed.
C1_LoginGatedByConfirmation ==
    /\ (last.op = "login" /\ exists(last.email)
            /\ stored(last.email).password = get_password_hash(last.password))
       => IF stored(last.email).confirmed
          THEN /\ last.status = HTTP_200_OK
               /\ last.access # NoToken
               /\ last.refresh # NoToken
          ELSE /\ last.status = HTTP_401_UNAUTHORIZED
               /\ last.detail = "Email not confirmed"
               /\ last.access = NoToken
               /\ last.refresh = NoToken
    /\ (last.op = "confirmed_email" /\ last.status = HTTP_200_OK)
       => /\ exists(last.token.sub)
          /\ stored(last.token.sub).confirmed

\* a login answered 200 with both tokens for a user confirmed by one write
C1_Witness ==
    /\ last.op = "login"
    /\ last.status = HTTP_200_OK
    /\ last.access # NoToken /\ last.refresh # NoToken
    /\ flag_writes[last.email] = 1

C3_GateRejectsWith401 ==
    (last.op \in GatedOps /\ last.token # NoHeader)
    => /\ (\/ last.token.sig # "ok"
           \/ last.token.exp < now
           \/ last.token.sub \in {AbsentClaim, NullSub}
           \/ ~exists(last.token.sub))
          => /\ last.status = HTTP_401_UNAUTHORIZED
             /\ last.detail = "Invalid credentials"
             /\ last.uid = NoUser
       /\ last.uid # NoUser
          => /\ last.token.sig = "ok"
             /\ last.token.exp >= now
             /\ users[last.uid].email = last.token.sub

\* C4 as stated: a contact handler runs its body (reads or writes the Contact
\* table) only for a request the gate resolved to a stored user.
C4_ContactsOnlyBehindGate ==
    (last.op \in ContactOps /\ (last.status = HTTP_200_OK \/ last.cid # 0))
    => last.uid \in DOMAIN users

\* C5 as stated: a token issued at t0 with ttl T verifies at every time before
\* t0 + T and is rejected at every time after t0 + T, a zero ttl included.
C5_TokenValidExactlyForTtl ==
    (last.op = "verify_token" /\ issue.delta # NoDelta)
    => /\ now < issue.at + issue.delta => last.status = HTTP_200_OK
       /\ now > issue.at + issue.delta => last.status = HTTP_401_UNAUTHORIZED

\* C6: a signup that arrives while its email is stored does not get past the
\* existence check: it is answered 409, adds no row, changes no row and
\* enqueues no mail.
C6_DuplicateSignupConflict ==
    [][/\ \A p \in Procs :
              (pending[p] = NoPending /\ pending'[p] # NoPending)
              => ~exists(pending'[p].email)
       /\ (last'.op \in SignupOps /\ exists(last'.email) /\ pending' = pending)
          => /\ last'.status = HTTP_409_CONFLICT
             /\ users' = users
             /\ mailq' = mailq]_vars

\* a signup was answered 409 while the row of the first signup is intact
C6_Witness ==
    /\ last.op \in SignupOps
    /\ last.status = HTTP_409_CONFLICT
    /\ Len(users) = 1
    /\ users[1].email = last.email

\* C7: no two User rows have the same email, whatever the interleaving of
\* the check and the insert of concurrent signups.
C7_EmailsUnique ==
    \A i, j \in DOMAIN users : users[i].email = users[j].email => i = j

\* two signups passed the check for the same email; one was inserted and the
\* other failed at commit
C7_Witness ==
    /\ last.op \in SignupOps
    /\ last.status = HTTP_500_INTERNAL_SERVER_ERROR
    /\ Len(users) = 1
    /\ users[1].email = last.email

\* C8: the confirmed flag of a user is written at most once, it is written
\* exactly when the user is confirmed, and every confirmation answered 200
\* leaves the user confirmed.
C8_ConfirmationIdempotent ==
    /\ \A e \in Emails :
          /\ flag_writes[e] <= 1
          /\ flag_writes[e] = 1 <=> (exists(e) /\ stored(e).confirmed)
    /\ (last.op \in {"confirmed_email", "verify_user_email"} /\ last.status = HTTP_200_OK)
       => /\ exists(last.email)
          /\ stored(last.email).confirmed

\* a repeated confirmation answered as a success, with one write in all
C8_Witness ==
    /\ last.op = "confirmed_email"
    /\ last.status = HTTP_200_OK
    /\ last.detail = "Your email is already confirmed"
    /\ flag_writes[last.email] = 1

\* C9: a row whose confirmed flag is true keeps it in every later state.
C9_ConfirmedNeverReverts ==
    [][\A i \in DOMAIN users :
          users[i].confirmed => (i \in DOMAIN users' /\ users'[i].confirmed)]_vars

\* a confirmed user after a login, an avatar update and a contact write
C9_Witness ==
    /\ Len(users) = 1
    /\ users[1].confirmed
    /\ users[1].refresh_token # NoToken
    /\ users[1].avatar # ""
    /\ contacts # {}

\* C10 as stated: a refresh token returned by a login and since replaced in
\* the refresh_token column by a later login is refused by the token refresh.
C10_OverwrittenRefreshTokenRefused ==
    (/\ last.op = "refresh_access_token"
     /\ last.token = kept.tok
     /\ kept.kind = "refresh" /\ kept.via = "login"
     /\ jwt_decode(kept.tok, now).ok
     /\ exists(kept.tok.sub)
     /\ stored(kept.tok.sub).refresh_token \notin {NoToken, kept.tok})
    => last.status = HTTP_401_UNAUTHORIZED

LoginOps == {"login", "routes_login", "login_for_access_token"}

\* C11 as stated: after every successful login the refresh_token stored on the
\* user's row is the refresh token of the response, and a failed login leaves
\* the User table unchanged.
C11_StoredRefreshTokenIsReturned ==
    [][last'.op \in LoginOps
       => IF last'.status = HTTP_200_OK
          THEN users'[last'.uid].refresh_token = last'.refresh
          ELSE users' = users]_vars

\* C12: a token refresh with a signed, unexpired token of subject s answers
\* 200 with a new unexpired access token of subject s; with no token, a badly
\* signed one, an expired one or one without subject it answers 401 and
\* issues nothing; in both cases the User and Contact tables are unchanged.
C12_RefreshMintsForSubject ==
    [][last'.op = "refresh_access_token"
       => /\ users' = users
          /\ contacts' = contacts
          /\ (last'.token.sig = "ok" /\ last'.token.exp > now
                  /\ last'.token.sub \notin {AbsentClaim, NullSub})
             => /\ last'.status = HTTP_200_OK
                /\ last'.access.sig = "ok"
                /\ last'.access.sub = last'.token.sub
                /\ last'.access.exp > now
          /\ (last'.token.sig # "ok" \/ last'.token.exp < now
                  \/ last'.token.sub \in {AbsentClaim, NullSub})
             => /\ last'.status = HTTP_401_UNAUTHORIZED
                /\ last'.access = NoToken]_vars

\* the refresh token of a login was exchanged for an access token of the
\* same subject
C12_Witness ==
    /\ last.op = "refresh_access_token"
    /\ last.status = HTTP_200_OK
    /\ kept.kind = "refresh"
    /\ last.token = kept.tok
    /\ last.access.sub = kept.tok.sub
    /\ exists(last.access.sub)

CreateOps == {"create_new_contact", "repository.create_new_contact"}
GetOps == {"get_contact", "repository.get_contact"}
UpdateOps == {"update_contact", "repository.update_contact"}
DeleteOps == {"delete_contact", "repository.delete_contact"}
ListOps == {"get_all_contacts_list", "get_specific_contacts_list"}
\* the request was let through to the handler's body
RepositoryOps ==
    {"repository.create_new_contact", "repository.get_all_contacts_list",
     "repository.get_contact", "repository.update_contact", "repository.delete_contact"}
PastGate(r) == r.uid # NoUser \/ r.op \in RepositoryOps
\* the row has the id and every field of the request body
SameFields(row, b) ==
    /\ row.id = b.contact_id
    /\ row.first_name = b.first_name
    /\ row.last_name = b.last_name
    /\ row.email = b.email
    /\ row.phone_number = b.phone_number
    /\ row.birth_date = b.birth_date
    /\ row.additional_data = b.additional_info

\* C13: a get that follows a successful create of the same id returns one
\* contact equal in all fields to the created one; a get that follows a
\* successful delete of the same id is answered 404; and an id that is not
\* in the store enters it only through a successful create of that id.
C13_CreateGetDeleteGet ==
    [][/\ (last.op \in CreateOps /\ last.status = HTTP_200_OK
              /\ last'.op \in GetOps /\ last'.cid = last.cid /\ PastGate(last'))
          => /\ last'.status = HTTP_200_OK
             /\ \E row \in last'.rows : last'.rows = {row} /\ SameFields(row, last.body)
       /\ (last.op \in DeleteOps /\ last.status = HTTP_200_OK
              /\ last'.op \in GetOps /\ last'.cid = last.cid /\ PastGate(last'))
          => /\ last'.status = HTTP_404_NOT_FOUND
             /\ last'.rows = {}
       /\ \A id \in {c.id : c \in contacts'} \ {c.id : c \in contacts} :
             /\ last'.op \in CreateOps
             /\ last'.status = HTTP_200_OK
             /\ last'.cid = id]_vars

\* a get through the gate returned a contact with a non-default first name
\* and a birth date of the year before, as it was created
C13_Witness ==
    /\ last.op = "get_contact"
    /\ last.status = HTTP_200_OK
    /\ last.uid # NoUser
    /\ \E row \in last.rows :
          /\ row \in contacts
          /\ row.id = last.cid
          /\ row.first_name = "Bob"
          /\ row.birth_date < 0
          /\ row.additional_data = "note"

\* C14 as stated: an update of an id that is not in the store is answered 404
\* and leaves the store unchanged.
C14_UpdateMissingIsNotFound ==
    [][(last'.op \in UpdateOps /\ PastGate(last')
           /\ contact_by_id(last'.cid, contacts) = {})
       => /\ last'.status = HTTP_404_NOT_FOUND
          /\ contacts' = contacts]_vars

\* C15: a delete of an id that is not in the store is answered 404 and leaves
\* the store unchanged; a delete of a stored id removes the row of that id and
\* no other.
C15_DeleteFrame ==
    [][(last'.op \in DeleteOps /\ PastGate(last'))
       => IF \A c \in contacts : c.id # last'.cid
          THEN /\ last'.status = HTTP_404_NOT_FOUND
               /\ contacts' = contacts
          ELSE /\ last'.status = HTTP_200_OK
               /\ contacts' = {c \in contacts : c.id # last'.cid}]_vars

\* a delete removed one contact and left the other one in the store
C15_Witness ==
    /\ last.op \in DeleteOps
    /\ last.status = HTTP_200_OK
    /\ contacts # {}
    /\ \A c \in contacts : c.id # last.cid

\* C16: a create with an id that is already stored is answered 500 and leaves
\* the store as it was, and so does every create or update answered 500.
C16_FailedWriteLeavesStore ==
    [][(last'.op \in CreateOps \cup UpdateOps /\ PastGate(last'))
       => /\ (last'.op \in CreateOps /\ \E c \in contacts : c.id = last'.cid)
             => /\ last'.status = HTTP_500_INTERNAL_SERVER_ERROR
                /\ contacts' = contacts
          /\ last'.status = HTTP_500_INTERNAL_SERVER_ERROR => contacts' = contacts]_vars

\* a create with a stored id and other field values was answered 500 and the
\* stored row still has its own values
C16_Witness ==
    /\ last.op \in CreateOps
    /\ last.status = HTTP_500_INTERNAL_SERVER_ERROR
    /\ \E c \in contacts :
          /\ c.id = last.cid
          /\ c.first_name # last.body.first_name
          /\ c.birth_date # last.body.birth_date

\* C17 as stated: a list request with a search term returns exactly the
\* contacts whose first_name, last_name or email contains the term, letters
\* compared without case; a list request without one returns every contact.
C17_SearchFilters ==
    (last.op \in ListOps /\ last.status = HTTP_200_OK)
    => last.rows = IF last.search = "" THEN contacts
                   ELSE {c \in contacts : \/ ilike(c.first_name, last.search)
                                           \/ ilike(c.last_name, last.search)
                                           \/ ilike(c.email, last.search)}

\* C18 as stated: when today and today + 7 days are in one calendar year,
\* get_upcoming_birthdays returns every contact whose birthday (month and day,
\* whatever the year of birth) lies inside the next 7 days and no contact
\* whose birthday lies outside them.
C18_BirthdaysByMonthAndDay ==
    (last.op = "get_upcoming_birthdays" /\ last.status = HTTP_200_OK
        /\ year_of(now) = year_of(now + 7 * MinutesPerDay))
    => \A c \in contacts :
          /\ (day_of_year(c.birth_date) > day_of_year(now)
                 /\ day_of_year(c.birth_date) < day_of_year(now) + 7)
             => c \in last.rows
          /\ (day_of_year(c.birth_date) < day_of_year(now)
                 \/ day_of_year(c.birth_date) > day_of_year(now) + 7)
             => c \notin last.rows

\* C19 as stated: a login with an unknown email, a login with a wrong
\* password and a request with a badly signed or expired token are all
\* answered 401 with the one message "Invalid credentials".
C19_UniformAuthFailure ==
    /\ (last.op \in {"login", "routes_login"}
            /\ (~exists(last.email)
                   \/ stored(last.email).password # get_password_hash(last.password)))
       => /\ last.status = HTTP_401_UNAUTHORIZED
          /\ last.detail = "Invalid credentials"
    /\ (last.op \in {"refresh_access_token", "verify_user_email", "read_secret"}
            /\ last.token # NoHeader
            /\ (last.token.sig # "ok" \/ last.token.exp < now))
       => /\ last.status = HTTP_401_UNAUTHORIZED
          /\ last.detail = "Invalid credentials"

\* C20: the session a request got from get_db is open until the request
\* ends and closed once it has ended, whether the request returned or raised
\* 401, 404, 409 or 500; when no request is running no session is open.
C20_SessionsReleased ==
    \A p \in Procs :
        /\ sessions[p].stage \in {"yielded", "returned", "raised"} => sessions[p].open
        /\ sessions[p].stage \in {"idle", "done"} => ~sessions[p].open

\* one request ended with a 500 and another with a 200, both finished, and
\* neither session is open
C20_Witness ==
    /\ sessions[1].stage = "done" /\ sessions[1].status = HTTP_500_INTERNAL_SERVER_ERROR
    /\ sessions[2].stage = "done" /\ sessions[2].status = HTTP_200_OK
    /\ \A p \in Procs : ~sessions[p].open

\* C21: a mail task is enqueued only by a signup answered 201 whose user is
\* stored, every such signup of auth.py enqueues exactly one, and a step of
\* the mail task, failed or not, removes the task for good and changes no
\* User row and no request in progress.
C21_MailAfterPersist ==
    [][/\ Len(mailq') > Len(mailq)
          => /\ last'.op = "signup"
             /\ last'.status = HTTP_201_CREATED
             /\ mailq' = Append(mailq, last'.email)
             /\ \E i \in DOMAIN users' : users'[i].email = last'.email
       /\ (last'.op = "signup" /\ last'.status = HTTP_201_CREATED /\ pending' # pending)
          => mailq' = Append(mailq, last'.email)
       /\ (last'.op = "signup" /\ last'.status # HTTP_201_CREATED) => mailq' = mailq
       /\ Len(mailq') < Len(mailq)
          => /\ mailq' = Tail(mailq)
             /\ users' = users
             /\ pending' = pending]_vars

\* the mail task of a signup through auth.py has run and failed: the queue is
\* empty, nothing reached the client and the user is stored
C21_Witness ==
    /\ mailq = <<>>
    /\ kept = NoKept
    /\ Len(users) = 1
    /\ users[1].username = "alice"
    /\ last = NoResp

C23_IssuanceLeavesPayload ==
    issue.fn # "" => issue.after = issue.data

\* the row has the mutable fields of the request body
SameMutableFields(row, b) ==
    /\ row.first_name = b.first_name
    /\ row.last_name = b.last_name
    /\ row.email = b.email
    /\ row.phone_number = b.phone_number
    /\ row.birth_date = b.birth_date
    /\ row.additional_data = b.additional_info

\* C24: an update of a stored id is answered 200, leaves one row of that id
\* with every mutable field as submitted, and changes no other contact and no
\* User row; a get of the id that follows returns that row.
C24_UpdateReplacesFields ==
    [][/\ (last'.op \in UpdateOps /\ PastGate(last')
              /\ \E c \in contacts : c.id = last'.cid)
          => /\ last'.status = HTTP_200_OK
             /\ users' = users
             /\ {c \in contacts' : c.id # last'.cid} = {c \in contacts : c.id # last'.cid}
             /\ \E row \in contacts' :
                   /\ {c \in contacts' : c.id = last'.cid} = {row}
                   /\ SameMutableFields(row, last'.body)
       /\ (last.op \in UpdateOps /\ last.status = HTTP_200_OK
              /\ last'.op \in GetOps /\ last'.cid = last.cid /\ PastGate(last'))
          => /\ last'.status = HTTP_200_OK
             /\ \E row \in last'.rows :
                   /\ last'.rows = {row}
                   /\ row.id = last.cid
                   /\ SameMutableFields(row, last.body)]_vars

\* an update through the gate, with a body that names another id, replaced
\* the fields of the row of the path id and another contact is stored
C24_Witness ==
    /\ last.op = "update_contact"
    /\ last.status = HTTP_200_OK
    /\ last.body.contact_id # last.cid
    /\ \E row \in contacts : row.id = last.cid /\ SameMutableFields(row, last.body)
    /\ \E c \in contacts : c.id # last.cid

\* C25: a signed, unexpired token whose subject is a stored email is accepted
\* whatever it was issued as: presented as the bearer of a request behind
\* get_current_user, a refresh token or an email-confirmation token resolves
\* to the user of its subject, and presented to the refresh operation an
\* access token is exchanged for a new access token of the same subject.
C25_TokenKindNotChecked ==
    /\ (last.op = "verify_user_email" /\ last.token = kept.tok
            /\ kept.kind \in {"refresh", "email"}
            /\ kept.tok.sig = "ok" /\ kept.tok.exp > now /\ exists(kept.tok.sub))
       => /\ last.status = HTTP_200_OK
          /\ last.uid = get_user_by_email(kept.tok.sub, users)
    /\ (last.op = "refresh_access_token" /\ last.token = kept.tok
            /\ kept.kind = "access"
            /\ kept.tok.sig = "ok" /\ kept.tok.exp > now /\ exists(kept.tok.sub))
       => /\ last.status = HTTP_200_OK
          /\ last.access.sig = "ok"
          /\ last.access.sub = kept.tok.sub

\* an email-confirmation token passed as the bearer was resolved to the user
C25_Witness ==
    /\ last.op = "verify_user_email"
    /\ last.status = HTTP_200_OK
    /\ last.token = kept.tok
    /\ kept.kind = "email"
    /\ last.uid = get_user_by_email(kept.tok.sub, users)

\* C26 as stated: request_email is always answered 200 and changes no User
\* row; for a confirmed user it enqueues nothing and answers "Your email is
\* already confirmed", for an unconfirmed user it enqueues one mail, and for
\* an email that is not stored it enqueues nothing and answers "Check your
\* email for confirmation.".
C26_RequestEmailNeverFails ==
    [][last'.op = "request_email"
       => /\ last'.status = HTTP_200_OK
          /\ users' = users
          /\ IF ~exists(last'.email)
             THEN /\ mailq' = mailq
                  /\ last'.detail = "Check your email for confirmation."
             ELSE IF stored(last'.email).confirmed
             THEN /\ mailq' = mailq
                  /\ last'.detail = "Your email is already confirmed"
             ELSE mailq' = Append(mailq, last'.email)]_vars
====
